---- MODULE Spec2Model ----
(***************************************************************************)
(* generate_xcodeproj.py: the manifest (SOURCE_FILES, RESOURCE_FILES), the *)
(* identifier assignment done when the module is loaded, the renderer      *)
(* pbxproj(), create_asset_catalog() and main().                           *)
(*                                                                         *)
(* A path is a record [dirs, stem, ext]: the directory components, and the *)
(* last component split at its extension, so that os.path.basename and     *)
(* str.endswith are computed and not tabulated.  The manifest is an input: *)
(* the two lists are drawn from bounded sets of paths in Init.             *)
(***************************************************************************)
EXTENDS Integers, Sequences, FiniteSets, TLC

VARIABLES
    SOURCE_FILES,    \* list of paths                         (line 25)
    RESOURCE_FILES,  \* list of paths                         (line 59)
    uuid,            \* the 16 structural identifiers         (lines 77-95)
    file_refs,       \* ordered dict path -> identifier       (line 98)
    build_files,     \* ordered dict path -> identifier       (line 99)
    issued,          \* how many distinct values make_uuid() has produced
    collide,         \* may one draw of make_uuid() repeat an earlier one
    pc,              \* position of the process
    fs,              \* the filesystem: node -> [kind, data]
    content,         \* main()'s local `content`
    renders,         \* texts returned by pbxproj() in this process, in order
    stdout,          \* lines printed by this process
    missing,         \* main()'s local `missing`
    idx,             \* position of main()'s verification loop
    run,             \* number of the current process
    fsAfter,         \* filesystem left by each finished process
    error            \* the exception that ended the process, "" if none

vars == <<SOURCE_FILES, RESOURCE_FILES, uuid, file_refs, build_files, issued,
          collide, pc, fs, content, renders, stdout, missing, idx, run, fsAfter,
          error>>

-----------------------------------------------------------------------------
(* Bounds of the model *)

\* most entries of the manifest, source and resource entries together
MaxEntries == 2
\* most calls of pbxproj() a process makes besides the one in main()
MaxCalls == 2
\* most processes started one after the other on the same directory
MaxRuns == 2
\* most lines a write that fails part-way leaves in its file
MaxCut == 1

-----------------------------------------------------------------------------
(* Paths *)

P(dirs, stem, ext) == [dirs |-> dirs, stem |-> stem, ext |-> ext]

\* os.path.basename(path)
basename(path) == path.stem \o path.ext

\* path.endswith(suffix), for a suffix that is an extension
endswith(path, suffix) == path.ext = suffix

\* the filesystem node a path names: its components
Node(path) == Append(path.dirs, basename(path))

\* os.path.join(dir, name) and f"{dir}/{name}" on nodes
join(node, name) == Append(node, name)

SwiftApp   == P(<<"EMCopilot", "App">>, "EMCopilotApp", ".swift")
SwiftOut   == P(<<"..">>, "Outside", ".swift")
ASSETS_XCASSETS == P(<<"EMCopilot", "Resources">>, "Assets", ".xcassets")
PreviewCat == P(<<"EMCopilot", "Resources">>, "Preview", ".xcassets")
WidgetExt  == P(<<"App">>, "Widget", ".ext")
EmptyPath  == P(<<>>, "", "")

\* the paths manifests are drawn from
Paths == {SwiftApp, SwiftOut, ASSETS_XCASSETS, PreviewCat, WidgetExt, EmptyPath}

SeqsUpTo(S, n) == UNION {[1..k -> S] : k \in 0..n}

\* the manifests: two lists with at most MaxEntries entries together
Manifests ==
    {m \in SeqsUpTo(Paths, MaxEntries) \X SeqsUpTo(Paths, MaxEntries) :
        Len(m[1]) + Len(m[2]) <= MaxEntries}

APP_NAME       == "EMCopilot"
BUNDLE_ID_BASE == "com.yourname.emcopilot"
MACOS_DEPLOY   == "14.0"
IOS_DEPLOY     == "17.0"
SWIFT_VERSION  == "5.10"

-----------------------------------------------------------------------------
(* Identifiers *)

StructNames ==
    <<"PROJECT_UUID", "MAIN_GROUP_UUID", "PRODUCTS_GROUP_UUID", "TARGET_UUID",
      "PRODUCT_REF_UUID", "SOURCES_PHASE_UUID", "RESOURCES_PHASE_UUID",
      "FRAMEWORKS_PHASE_UUID", "DEBUG_CONFIG_UUID", "RELEASE_CONFIG_UUID",
      "TARGET_DEBUG_CFG_UUID", "TARGET_RELEASE_CFG_UUID", "PROJECT_CFGLIST_UUID",
      "TARGET_CFGLIST_UUID", "SWIFTDATA_FW_REF_UUID", "SWIFTDATA_BUILD_UUID">>

NStruct == Len(StructNames)

\* make_uuid(), called k times by a process that starts when `base` values
\* have been produced: the sequences of values it can return.  uuid4 is random:
\* each draw is a value never seen before, or (when mayCollide) one draw of
\* the process repeats an earlier one, the first or the one just before it.
make_uuid(k, base, mayCollide) ==
    {[x \in 1..k |-> base + x]}
    \cup (IF mayCollide
          THEN {[x \in 1..k |-> IF x = d[2] THEN base + d[1] ELSE base + x] :
                    d \in {e \in (1..k) \X (2..k) : e[1] = 1 \/ e[1] = e[2] - 1}}
          ELSE {})

\* d[key] = val on a dict that keeps insertion order
DictSet(d, key, val) ==
    IF \E i \in DOMAIN d : d[i].key = key
    THEN [i \in DOMAIN d |-> IF d[i].key = key THEN [key |-> key, val |-> val] ELSE d[i]]
    ELSE Append(d, [key |-> key, val |-> val])

\* key in d
DictHas(d, key) == \E i \in DOMAIN d : d[i].key = key

\* d[key]
DictGet(d, key) == d[CHOOSE i \in DOMAIN d : d[i].key = key].val

\* the loops of lines 100-105: entry n of `files` takes draws first+2(n-1)
\* (file_refs) and first+2(n-1)+1 (build_files) of tape t
RECURSIVE AssignRefs(_, _, _, _)
AssignRefs(d, files, t, first) ==
    IF files = <<>> THEN d
    ELSE AssignRefs(DictSet(d, Head(files), t[first]), Tail(files), t, first + 2)

RECURSIVE AssignBuilds(_, _, _, _)
AssignBuilds(d, files, t, first) ==
    IF files = <<>> THEN d
    ELSE AssignBuilds(DictSet(d, Head(files), t[first + 1]), Tail(files), t, first + 2)

\* the structural identifiers, by the names the source gives them
PROJECT_UUID            == uuid[1]
MAIN_GROUP_UUID         == uuid[2]
PRODUCTS_GROUP_UUID     == uuid[3]
TARGET_UUID             == uuid[4]
PRODUCT_REF_UUID        == uuid[5]
SOURCES_PHASE_UUID      == uuid[6]
RESOURCES_PHASE_UUID    == uuid[7]
FRAMEWORKS_PHASE_UUID   == uuid[8]
DEBUG_CONFIG_UUID       == uuid[9]
RELEASE_CONFIG_UUID     == uuid[10]
TARGET_DEBUG_CFG_UUID   == uuid[11]
TARGET_RELEASE_CFG_UUID == uuid[12]
PROJECT_CFGLIST_UUID    == uuid[13]
TARGET_CFGLIST_UUID     == uuid[14]
SWIFTDATA_FW_REF_UUID   == uuid[15]
SWIFTDATA_BUILD_UUID    == uuid[16]

-----------------------------------------------------------------------------
(* The rendered text: a sequence of lines.  A line is a record              *)
(* [kind, isa, id, name, path, ftype, refs, attrs]: kind "text" (a literal  *)
(* line), "begin"/"end" (a section marker of section isa), "object" (an     *)
(* object of type isa defined under identifier id) or "root" (the           *)
(* rootObject line).  refs lists the identifiers the line holds in          *)
(* referencing positions, as [key, id], in the order of the text.           *)

Line(kind, isa, id, name, path, ftype, refs, attrs) ==
    [kind |-> kind, isa |-> isa, id |-> id, name |-> name, path |-> path,
     ftype |-> ftype, refs |-> refs, attrs |-> attrs]

Text(s)      == Line("text", "", 0, s, <<>>, "", <<>>, <<>>)
Begin(isa)   == Line("begin", isa, 0, "", <<>>, "", <<>>, <<>>)
End(isa)     == Line("end", isa, 0, "", <<>>, "", <<>>, <<>>)
Ref(key, id) == [key |-> key, id |-> id]
Obj(isa, id, name, path, ftype, refs, attrs) ==
    Line("object", isa, id, name, path, ftype, refs, attrs)

\* lines 117-125
Preamble ==
    <<Text("// !$*UTF8*$!"), Text("{"), Text("archiveVersion = 1;"),
      Text("classes = {"), Text("};"), Text("objectVersion = 77;"),
      Text("objects = {"), Text("")>>

\* lines 127-133
BuildFileSection ==
    <<Begin("PBXBuildFile")>>
    \o [i \in DOMAIN build_files |->
          Obj("PBXBuildFile", build_files[i].val,
              basename(build_files[i].key) \o " in Sources", <<>>, "",
              <<Ref("fileRef", DictGet(file_refs, build_files[i].key))>>, <<>>)]
    \o <<Obj("PBXBuildFile", SWIFTDATA_BUILD_UUID, "SwiftData.framework in Frameworks",
             <<>>, "", <<Ref("fileRef", SWIFTDATA_FW_REF_UUID)>>, <<>>),
         End("PBXBuildFile")>>

\* the if/elif of lines 139-142: the lastKnownFileType of a path, "" when
\* neither branch is taken and no line is appended
lastKnownFileType(path) ==
    IF endswith(path, ".swift") THEN "sourcecode.swift"
    ELSE IF endswith(path, ".xcassets") THEN "folder.assetcatalog"
    ELSE ""

FileRefLine(e) ==
    Obj("PBXFileReference", e.val, basename(e.key), <<e.key>>,
        lastKnownFileType(e.key), <<>>, <<[k |-> "sourceTree", v |-> "<group>"]>>)

\* lines 135-145
FileReferenceSection ==
    LET typed == SelectSeq(file_refs, LAMBDA e : lastKnownFileType(e.key) # "")
    IN  <<Begin("PBXFileReference")>>
        \o [i \in DOMAIN typed |-> FileRefLine(typed[i])]
        \o <<Obj("PBXFileReference", PRODUCT_REF_UUID, APP_NAME \o ".app",
                 <<P(<<>>, APP_NAME, ".app")>>, "wrapper.application", <<>>,
                 <<[k |-> "sourceTree", v |-> "BUILT_PRODUCTS_DIR"]>>),
             Obj("PBXFileReference", SWIFTDATA_FW_REF_UUID, "SwiftData.framework",
                 <<P(<<"System", "Library", "Frameworks">>, "SwiftData", ".framework")>>,
                 "wrapper.framework", <<>>, <<[k |-> "sourceTree", v |-> "SDKROOT"]>>),
             End("PBXFileReference")>>

\* lines 147-157
FrameworksBuildPhaseSection ==
    <<Begin("PBXFrameworksBuildPhase"),
      Obj("PBXFrameworksBuildPhase", FRAMEWORKS_PHASE_UUID, "Frameworks", <<>>, "",
          <<Ref("files", SWIFTDATA_BUILD_UUID)>>, <<>>),
      End("PBXFrameworksBuildPhase")>>

\* the main group with the loop of line 166 run over SOURCE_FILES instead of
\* file_refs: the resources are left out of the group
GroupSectionSourcesOnly ==
    <<Begin("PBXGroup"),
      Obj("PBXGroup", MAIN_GROUP_UUID, "", <<>>, "",
          [i \in DOMAIN SOURCE_FILES |->
              Ref("children", DictGet(file_refs, SOURCE_FILES[i]))]
          \o <<Ref("children", PRODUCTS_GROUP_UUID),
               Ref("children", SWIFTDATA_FW_REF_UUID)>>,
          <<[k |-> "sourceTree", v |-> "<group>"]>>),
      Obj("PBXGroup", PRODUCTS_GROUP_UUID, "Products", <<>>, "",
          <<Ref("children", PRODUCT_REF_UUID)>>,
          <<[k |-> "sourceTree", v |-> "<group>"]>>),
      End("PBXGroup")>>

\* lines 159-184
GroupSection ==
    <<Begin("PBXGroup"),
      Obj("PBXGroup", MAIN_GROUP_UUID, "", <<>>, "",
          [i \in DOMAIN file_refs |-> Ref("children", file_refs[i].val)]
          \o <<Ref("children", PRODUCTS_GROUP_UUID),
               Ref("children", SWIFTDATA_FW_REF_UUID)>>,
          <<[k |-> "sourceTree", v |-> "<group>"]>>),
      Obj("PBXGroup", PRODUCTS_GROUP_UUID, "Products", <<>>, "",
          <<Ref("children", PRODUCT_REF_UUID)>>,
          <<[k |-> "sourceTree", v |-> "<group>"]>>),
      End("PBXGroup")>>

\* lines 186-207
NativeTargetSection ==
    <<Begin("PBXNativeTarget"),
      Obj("PBXNativeTarget", TARGET_UUID, APP_NAME, <<>>, "",
          <<Ref("buildConfigurationList", TARGET_CFGLIST_UUID),
            Ref("buildPhases", SOURCES_PHASE_UUID),
            Ref("buildPhases", RESOURCES_PHASE_UUID),
            Ref("buildPhases", FRAMEWORKS_PHASE_UUID),
            Ref("productReference", PRODUCT_REF_UUID)>>,
          <<[k |-> "productName", v |-> APP_NAME],
            [k |-> "productType", v |-> "com.apple.product-type.application"]>>),
      End("PBXNativeTarget")>>

\* lines 209-239
ProjectSection ==
    <<Begin("PBXProject"),
      Obj("PBXProject", PROJECT_UUID, "Project object", <<>>, "",
          <<Ref("TargetAttributes", TARGET_UUID),
            Ref("buildConfigurationList", PROJECT_CFGLIST_UUID),
            Ref("mainGroup", MAIN_GROUP_UUID),
            Ref("productRefGroup", PRODUCTS_GROUP_UUID),
            Ref("targets", TARGET_UUID)>>,
          <<[k |-> "compatibilityVersion", v |-> "Xcode 15.0"],
            [k |-> "developmentRegion", v |-> "en"],
            [k |-> "knownRegions", v |-> "en,Base"]>>),
      End("PBXProject")>>

\* lines 241-254
ResourcesBuildPhaseSection ==
    <<Begin("PBXResourcesBuildPhase"),
      Obj("PBXResourcesBuildPhase", RESOURCES_PHASE_UUID, "Resources", <<>>, "",
          IF DictHas(build_files, ASSETS_XCASSETS)
          THEN <<Ref("files", DictGet(build_files, ASSETS_XCASSETS))>>
          ELSE <<>>,
          <<>>),
      End("PBXResourcesBuildPhase")>>

\* lines 256-268
SourcesBuildPhaseSection ==
    <<Begin("PBXSourcesBuildPhase"),
      Obj("PBXSourcesBuildPhase", SOURCES_PHASE_UUID, "Sources", <<>>, "",
          [i \in DOMAIN SOURCE_FILES |->
              Ref("files", DictGet(build_files, SOURCE_FILES[i]))],
          <<>>),
      End("PBXSourcesBuildPhase")>>

\* the settings of the two target configurations that come from the project
\* constants (lines 328-335, 354-361)
TargetSettings ==
    <<[k |-> "MACOS_DEPLOYMENT_TARGET", v |-> MACOS_DEPLOY],
      [k |-> "IPHONEOS_DEPLOYMENT_TARGET", v |-> IOS_DEPLOY],
      [k |-> "PRODUCT_BUNDLE_IDENTIFIER", v |-> BUNDLE_ID_BASE],
      [k |-> "SWIFT_VERSION", v |-> SWIFT_VERSION]>>

\* lines 270-367
BuildConfigurationSection ==
    <<Begin("XCBuildConfiguration"),
      Obj("XCBuildConfiguration", DEBUG_CONFIG_UUID, "Debug", <<>>, "", <<>>,
          <<[k |-> "SWIFT_OPTIMIZATION_LEVEL", v |-> "-Onone"]>>),
      Obj("XCBuildConfiguration", RELEASE_CONFIG_UUID, "Release", <<>>, "", <<>>,
          <<[k |-> "SWIFT_OPTIMIZATION_LEVEL", v |-> "-O"]>>),
      Obj("XCBuildConfiguration", TARGET_DEBUG_CFG_UUID, "Debug", <<>>, "", <<>>,
          TargetSettings),
      Obj("XCBuildConfiguration", TARGET_RELEASE_CFG_UUID, "Release", <<>>, "", <<>>,
          TargetSettings),
      End("XCBuildConfiguration")>>

\* lines 369-389
ConfigurationListSection ==
    <<Begin("XCConfigurationList"),
      Obj("XCConfigurationList", PROJECT_CFGLIST_UUID,
          "Build configuration list for PBXProject", <<>>, "",
          <<Ref("buildConfigurations", DEBUG_CONFIG_UUID),
            Ref("buildConfigurations", RELEASE_CONFIG_UUID)>>,
          <<[k |-> "defaultConfigurationName", v |-> "Release"]>>),
      Obj("XCConfigurationList", TARGET_CFGLIST_UUID,
          "Build configuration list for PBXNativeTarget", <<>>, "",
          <<Ref("buildConfigurations", TARGET_DEBUG_CFG_UUID),
            Ref("buildConfigurations", TARGET_RELEASE_CFG_UUID)>>,
          <<[k |-> "defaultConfigurationName", v |-> "Release"]>>),
      End("XCConfigurationList")>>

\* lines 391-393
Postamble ==
    <<Text("};"),
      Line("root", "", 0, "Project object", <<>>, "",
           <<Ref("rootObject", PROJECT_UUID)>>, <<>>),
      Text("}")>>

\* the sections with the two build phases that follow the project appended
\* the other way round: sources before resources
SectionsSourcesFirst ==
    BuildFileSection \o FileReferenceSection \o FrameworksBuildPhaseSection
    \o GroupSection \o NativeTargetSection \o ProjectSection
    \o SourcesBuildPhaseSection \o ResourcesBuildPhaseSection
    \o BuildConfigurationSection \o ConfigurationListSection

\* lines 127-389: the ten sections, in the order they are appended
Sections ==
    BuildFileSection \o FileReferenceSection \o FrameworksBuildPhaseSection
    \o GroupSection \o NativeTargetSection \o ProjectSection
    \o ResourcesBuildPhaseSection \o SourcesBuildPhaseSection
    \o BuildConfigurationSection \o ConfigurationListSection

\* pbxproj() with `lines` kept between calls (a list made once, as a default
\* argument is): each call returns what the call before it returned, and more
pbxprojSharedLines ==
    (IF renders = <<>> THEN <<>> ELSE renders[Len(renders)])
    \o Preamble \o Sections \o Postamble

\* pbxproj(): the text, from the module's globals alone
pbxproj == Preamble \o Sections \o Postamble

-----------------------------------------------------------------------------
(* The filesystem: node -> [kind, data], kind "absent", "dir" or "file";   *)
(* the data of a file is a sequence of lines.                              *)

proj_dir  == <<"EMCopilot.xcodeproj">>
proj_path == join(proj_dir, "project.pbxproj")
base      == Node(ASSETS_XCASSETS)
appicon   == join(base, "AppIcon.appiconset")
accent    == join(base, "AccentColor.colorset")

\* what the generator creates, in the order it creates it
OutputDirs  == <<proj_dir, base, appicon, accent>>
OutputFiles == <<proj_path, join(base, "Contents.json"),
                 join(appicon, "Contents.json"), join(accent, "Contents.json")>>

Range(f) == {f[i] : i \in DOMAIN f}

Ancestors(n) == {SubSeq(n, 1, k) : k \in 1..(Len(n) - 1)}

\* the current directory's parent is there and is no part of the model's state
Tracked(n) == n # <<"">> /\ n[1] # ".."

Nodes ==
    LET leaves == Range(OutputDirs) \cup Range(OutputFiles)
                  \cup {Node(p) : p \in Paths}
    IN  {n \in leaves \cup UNION {Ancestors(l) : l \in leaves} : Tracked(n)}

Absent     == [kind |-> "absent", data |-> <<>>]
Dir        == [kind |-> "dir", data |-> <<>>]
File(data) == [kind |-> "file", data |-> data]

\* os.path.exists(path): "" names nothing, ".." and what it holds is outside
\* the project and taken to be there
exists(f, n) ==
    IF n = <<"">> THEN FALSE
    ELSE IF n[1] = ".." THEN TRUE
    ELSE f[n].kind # "absent"

\* os.makedirs(n) without exist_ok=True: a directory that is there is an error
makedirs_strict(f, n) ==
    IF f[n].kind # "absent" \/ \E a \in Ancestors(n) : f[a].kind = "file"
    THEN [err |-> "FileExistsError", fs |-> f]
    ELSE [err |-> "",
          fs  |-> [x \in DOMAIN f |->
                     IF x = n \/ x \in Ancestors(n) THEN Dir ELSE f[x]]]

\* os.makedirs(n, exist_ok=True): [err, fs]
makedirs_exist_ok(f, n) ==
    IF f[n].kind = "file" \/ \E a \in Ancestors(n) : f[a].kind = "file"
    THEN [err |-> "FileExistsError", fs |-> f]
    ELSE [err |-> "",
          fs  |-> [x \in DOMAIN f |->
                     IF x = n \/ x \in Ancestors(n) THEN Dir ELSE f[x]]]

\* with open(n, "w") as f: f.write(data) -- [err, fs]
write_file(f, n, data) ==
    IF f[n].kind = "dir" THEN [err |-> "IsADirectoryError", fs |-> f]
    ELSE IF \E a \in Ancestors(n) : f[a].kind # "dir"
    THEN [err |-> "FileNotFoundError", fs |-> f]
    ELSE [err |-> "", fs |-> [f EXCEPT ![n] = File(data)]]

\* os.makedirs(n, exist_ok=True) raising an OSError that is not of n's kind
\* (permission denied, read-only or full volume): the filesystems it may
\* leave, with the directories above n it made, top down, before it failed
makedirs_fails(f, n) ==
    {[x \in DOMAIN f |->
        IF x \in Ancestors(n) /\ Len(x) <= k /\ f[x].kind = "absent"
        THEN Dir ELSE f[x]] :
     k \in {j \in 0..(Len(n) - 1) :
              \A a \in Ancestors(n) : Len(a) <= j => f[a].kind # "file"}}

\* with open(n, "w") as f: f.write(data) raising an OSError: open() failed
\* and n is as it was, or open() made or emptied n and the write or the flush
\* at close failed, leaving the first lines of data
write_fails(f, n, data) ==
    {f} \cup
    IF f[n].kind # "dir" /\ \A a \in Ancestors(n) : f[a].kind = "dir"
    THEN {[f EXCEPT ![n] = File(SubSeq(data, 1, k))] :
            k \in {j \in 0..MaxCut : j < Len(data)}}
    ELSE {}

\* json.dump of the three catalog stubs (lines 409, 412-418, 421-427)
CatalogJson ==
    <<<<Text("info: author xcode, version 1")>>,
      <<Text("images: universal ios 1024x1024; mac 1024x1024 1x"),
        Text("info: author xcode, version 1")>>,
      <<Text("colors: universal srgb 0.337 0.333 0.996 1.000"),
        Text("info: author xcode, version 1")>>>>

\* a file that was there before the generator ran
Stale == <<Text("written by someone else")>>

Out(tag, node) == [tag |-> tag, node |-> node, n |-> 0]

-----------------------------------------------------------------------------
(* Initial states *)

\* the filesystems in which nothing tracked has the wrong kind: a set of
\* nodes that holds the parent of each of its nodes
FsOf(present) ==
    [n \in Nodes |->
        IF n \notin present THEN Absent
        ELSE IF n \in Range(OutputFiles)
                  \/ (\E p \in Paths : n = Node(p) /\ p.ext = ".swift")
                  \/ n = Node(WidgetExt)
             THEN File(Stale)
             ELSE Dir]

\* the sets of outputs an earlier run, finished or interrupted, has left:
\* the first n of OutputDirs \o OutputFiles in the order main() makes them
LeftByRun(made, n) == {made[i] : i \in 1..n}

\* what may be there before the first run: the project bundle with or
\* without its descriptor, the catalog as far as an earlier run made it, and
\* any of the manifest's own paths; with each node, the directories above it
FsStates(src, res) ==
    LET own     == {Node(p) : p \in Range(src) \cup Range(res)} \cap Nodes
        bundle  == <<proj_dir, proj_path>>
        catalog == Tail(OutputDirs) \o Tail(OutputFiles)
        above(s) == s \cup UNION {Ancestors(n) : n \in s}
    IN  {FsOf(above(LeftByRun(bundle, b) \cup LeftByRun(catalog, c) \cup o)) :
            b \in 0..Len(bundle), c \in 0..Len(catalog), o \in SUBSET own}

InitCommon ==
    /\ uuid = [i \in 1..NStruct |-> 0]
    /\ file_refs = <<>>
    /\ build_files = <<>>
    /\ issued = 0
    /\ pc = "load"
    /\ content = <<>>
    /\ renders = <<>>
    /\ stdout = <<>>
    /\ missing = <<>>
    /\ idx = 1
    /\ run = 1
    /\ fsAfter = <<>>
    /\ error = ""

\* the module is imported and pbxproj() called on it: any manifest, any
\* identifier draws, nothing on disk
Init ==
    /\ \E m \in Manifests : SOURCE_FILES = m[1] /\ RESOURCE_FILES = m[2]
    /\ collide = TRUE
    /\ fs = FsOf({})
    /\ InitCommon

\* the script is run: any manifest, any filesystem, distinct identifiers
InitRun ==
    /\ \E m \in Manifests :
         /\ SOURCE_FILES = m[1]
         /\ RESOURCE_FILES = m[2]
         /\ fs \in FsStates(m[1], m[2])
    /\ collide = FALSE
    /\ InitCommon

-----------------------------------------------------------------------------
(* Actions *)

\* lines 77-105: the module is loaded and every identifier assigned
LoadModule ==
    /\ pc = "load"
    /\ LET k == NStruct + 2 * (Len(SOURCE_FILES) + Len(RESOURCE_FILES))
       IN  \E t \in make_uuid(k, issued, collide) :
             /\ uuid' = [i \in 1..NStruct |-> t[i]]
             /\ file_refs' =
                  AssignRefs(AssignRefs(<<>>, SOURCE_FILES, t, NStruct + 1),
                             RESOURCE_FILES, t, NStruct + 1 + 2 * Len(SOURCE_FILES))
             /\ build_files' =
                  AssignBuilds(AssignBuilds(<<>>, SOURCE_FILES, t, NStruct + 1),
                               RESOURCE_FILES, t, NStruct + 1 + 2 * Len(SOURCE_FILES))
             /\ issued' = issued + k
    /\ pc' = "main"
    /\ UNCHANGED <<SOURCE_FILES, RESOURCE_FILES, collide, fs, content, renders,
                   stdout, missing, idx, run, fsAfter, error>>

\* pbxproj() called on the loaded module
CallPbxproj ==
    /\ pc = "main"
    /\ Len(renders) < MaxCalls
    /\ renders' = Append(renders, pbxproj)
    /\ UNCHANGED <<SOURCE_FILES, RESOURCE_FILES, uuid, file_refs, build_files,
                   issued, collide, pc, fs, content, stdout, missing, idx, run,
                   fsAfter, error>>

\* the exception caught and noted, and main() going on with its verification
RaiseAndGoOn(err) ==
    /\ pc' = "verify"
    /\ error' = err

\* an uncaught exception ends the process
Raise(err) ==
    /\ pc' = "crashed"
    /\ error' = err

\* lines 436-439: the banner, os.makedirs(proj_dir, exist_ok=True)
MakeProjectDir ==
    /\ pc = "main"
    /\ LET r == makedirs_exist_ok(fs, proj_dir)
       IN  /\ fs' = r.fs
           /\ IF r.err = "" THEN pc' = "render" /\ error' = error ELSE Raise(r.err)
    /\ stdout' = Append(stdout, Out("Generating", <<>>))
    /\ UNCHANGED <<SOURCE_FILES, RESOURCE_FILES, uuid, file_refs, build_files,
                   issued, collide, content, renders, missing, idx, run, fsAfter>>

\* line 443: content = pbxproj()
Render ==
    /\ pc = "render"
    /\ content' = pbxproj
    /\ renders' = Append(renders, pbxproj)
    /\ pc' = "write"
    /\ UNCHANGED <<SOURCE_FILES, RESOURCE_FILES, uuid, file_refs, build_files,
                   issued, collide, fs, stdout, missing, idx, run, fsAfter, error>>

\* lines 444-446: the descriptor is written and reported
WriteProject ==
    /\ pc = "write"
    /\ LET r == write_file(fs, proj_path, content)
       IN  /\ fs' = r.fs
           /\ IF r.err = ""
              THEN /\ pc' = "catalog"
                   /\ error' = error
                   /\ stdout' = Append(stdout, Out("Created", proj_path))
              ELSE Raise(r.err) /\ stdout' = stdout
    /\ idx' = 1
    /\ UNCHANGED <<SOURCE_FILES, RESOURCE_FILES, uuid, file_refs, build_files,
                   issued, collide, content, renders, missing, run, fsAfter>>

\* create_asset_catalog(), lines 401-429, one filesystem call at a time:
\* calls 1-3 make base and the two sets, calls 4-6 write the three stubs;
\* after the last one the function prints and main() prints the heading of
\* its verification (line 452) and empties `missing`
CatalogStep ==
    /\ pc = "catalog"
    /\ LET n == IF idx <= 3 THEN OutputDirs[idx + 1] ELSE OutputFiles[idx - 2]
           r == IF idx <= 3 THEN makedirs_exist_ok(fs, n)
                ELSE write_file(fs, n, CatalogJson[idx - 3])
       IN  /\ fs' = r.fs
           /\ IF r.err # "" THEN Raise(r.err) /\ idx' = idx /\ stdout' = stdout
              ELSE IF idx < 6 THEN /\ idx' = idx + 1
                                   /\ UNCHANGED <<pc, error, stdout>>
              ELSE /\ idx' = 1
                   /\ pc' = "verify"
                   /\ error' = error
                   /\ stdout' = stdout \o <<Out("Created", base),
                                            Out("Checking", <<>>)>>
    /\ missing' = <<>>
    /\ UNCHANGED <<SOURCE_FILES, RESOURCE_FILES, uuid, file_refs, build_files,
                   issued, collide, content, renders, run, fsAfter>>

\* the loop of lines 454-459 with a break after the first missing path
VerifyStepBreak ==
    /\ pc = "verify"
    /\ idx <= Len(SOURCE_FILES)
    /\ LET path == SOURCE_FILES[idx]
       IN  IF exists(fs, Node(path))
           THEN /\ stdout' = Append(stdout, Out("ok", Node(path)))
                /\ missing' = missing
                /\ idx' = idx + 1
           ELSE /\ stdout' = Append(stdout, Out("MISSING", Node(path)))
                /\ missing' = Append(missing, path)
                /\ idx' = Len(SOURCE_FILES) + 1
    /\ UNCHANGED <<SOURCE_FILES, RESOURCE_FILES, uuid, file_refs, build_files,
                   issued, collide, pc, fs, content, renders, run, fsAfter, error>>

\* lines 454-459: one turn of the loop over SOURCE_FILES
VerifyStep ==
    /\ pc = "verify"
    /\ idx <= Len(SOURCE_FILES)
    /\ LET path == SOURCE_FILES[idx]
       IN  IF exists(fs, Node(path))
           THEN /\ stdout' = Append(stdout, Out("ok", Node(path)))
                /\ missing' = missing
           ELSE /\ stdout' = Append(stdout, Out("MISSING", Node(path)))
                /\ missing' = Append(missing, path)
    /\ idx' = idx + 1
    /\ UNCHANGED <<SOURCE_FILES, RESOURCE_FILES, uuid, file_refs, build_files,
                   issued, collide, pc, fs, content, renders, run, fsAfter, error>>

\* lines 461-471: the summary; main() returns and the process ends
Summary ==
    /\ pc = "verify"
    /\ idx > Len(SOURCE_FILES)
    /\ stdout' = Append(stdout,
                        IF missing # <<>>
                        THEN [tag |-> "warning", node |-> <<>>, n |-> Len(missing)]
                        ELSE Out("All present", <<>>))
    /\ pc' = "done"
    /\ fsAfter' = Append(fsAfter, fs)
    /\ UNCHANGED <<SOURCE_FILES, RESOURCE_FILES, uuid, file_refs, build_files,
                   issued, collide, fs, content, renders, missing, idx, run, error>>

\* python3 generate_xcodeproj.py once more, in the same directory: a new
\* process, whose module state starts afresh
Rerun ==
    /\ pc = "done"
    /\ run < MaxRuns
    /\ run' = run + 1
    /\ pc' = "load"
    /\ uuid' = [i \in 1..NStruct |-> 0]
    /\ file_refs' = <<>>
    /\ build_files' = <<>>
    /\ content' = <<>>
    /\ renders' = <<>>
    /\ stdout' = <<>>
    /\ missing' = <<>>
    /\ idx' = 1
    /\ UNCHANGED <<SOURCE_FILES, RESOURCE_FILES, issued, collide, fs, fsAfter, error>>

Next == LoadModule \/ CallPbxproj

Spec == Init /\ [][Next]_vars

NextRun ==
    \/ LoadModule
    \/ MakeProjectDir
    \/ Render
    \/ WriteProject
    \/ CatalogStep
    \/ VerifyStep
    \/ Summary
    \/ Rerun

SpecRun == InitRun /\ [][NextRun]_vars

\* line 439 raising: the banner is out, the process ends
MakeProjectDirFails ==
    /\ pc = "main"
    /\ fs' \in makedirs_fails(fs, proj_dir)
    /\ Raise("OSError")
    /\ stdout' = Append(stdout, Out("Generating", <<>>))
    /\ UNCHANGED <<SOURCE_FILES, RESOURCE_FILES, uuid, file_refs, build_files,
                   issued, collide, content, renders, missing, idx, run, fsAfter>>

\* lines 444-445 raising: line 446 is not reached
WriteProjectFails ==
    /\ pc = "write"
    /\ fs' \in write_fails(fs, proj_path, content)
    /\ Raise("OSError")
    /\ UNCHANGED <<SOURCE_FILES, RESOURCE_FILES, uuid, file_refs, build_files,
                   issued, collide, content, renders, stdout, missing, idx, run,
                   fsAfter>>

\* the filesystem call create_asset_catalog() has come to (lines 403-405,
\* 408-409, 417-418, 426-427) raising: the exception leaves the function and
\* main()
CatalogStepFails ==
    /\ pc = "catalog"
    /\ LET n == IF idx <= 3 THEN OutputDirs[idx + 1] ELSE OutputFiles[idx - 2]
       IN  fs' \in IF idx <= 3 THEN makedirs_fails(fs, n)
                   ELSE write_fails(fs, n, CatalogJson[idx - 3])
    /\ Raise("OSError")
    /\ UNCHANGED <<SOURCE_FILES, RESOURCE_FILES, uuid, file_refs, build_files,
                   issued, collide, content, renders, stdout, missing, idx, run,
                   fsAfter>>

\* what may be there before a run that can fail: nothing of the outputs or
\* all of them, and any of the manifest's own paths
FsBefore(src, res) ==
    LET own      == {Node(p) : p \in Range(src) \cup Range(res)} \cap Nodes
        outputs  == Range(OutputDirs) \cup Range(OutputFiles)
        above(s) == s \cup UNION {Ancestors(n) : n \in s}
    IN  {FsOf(above(made \cup o)) : made \in {{}, outputs}, o \in SUBSET own}

\* the script is run once on a volume whose calls may fail
InitFail ==
    /\ \E m \in Manifests :
         /\ SOURCE_FILES = m[1]
         /\ RESOURCE_FILES = m[2]
         /\ fs \in FsBefore(m[1], m[2])
    /\ collide = FALSE
    /\ InitCommon

NextFail ==
    \/ LoadModule
    \/ MakeProjectDir
    \/ MakeProjectDirFails
    \/ Render
    \/ WriteProject
    \/ WriteProjectFails
    \/ CatalogStep
    \/ CatalogStepFails
    \/ VerifyStep
    \/ Summary

SpecFail == InitFail /\ [][NextFail]_vars

-----------------------------------------------------------------------------
(* Reading a rendered text *)

\* the lines of t that define an object under identifier id
Defining(t, id) == {i \in DOMAIN t : t[i].kind = "object" /\ t[i].id = id}

\* the identifiers t holds in referencing positions
Referenced(t) ==
    UNION {{t[i].refs[j].id : j \in DOMAIN t[i].refs} : i \in DOMAIN t}

\* the identifiers listed under `key` by the objects of type isa, in order
Listed(t, isa, key) ==
    LET objs == SelectSeq(t, LAMBDA l : l.kind = "object" /\ l.isa = isa)
        keep(l) == SelectSeq(l.refs, LAMBDA r : r.key = key)
        RECURSIVE cat(_)
        cat(q) == IF q = <<>> THEN <<>>
                  ELSE [i \in DOMAIN keep(Head(q)) |-> keep(Head(q))[i].id]
                       \o cat(Tail(q))
    IN  cat(objs)

\* the manifest, both lists
Entries == SOURCE_FILES \o RESOURCE_FILES

\* section 4.2 of the specification: no empty path, no path twice, no path
\* that leaves the project root
WellFormed ==
    /\ \A i \in DOMAIN Entries :
         /\ Entries[i] # EmptyPath
         /\ ".." \notin Range(Entries[i].dirs)
    /\ \A i, j \in DOMAIN Entries : i # j => Entries[i] # Entries[j]

\* every path of the manifest has one of the two extensions the renderer knows
Recognised == \A i \in DOMAIN Entries : lastKnownFileType(Entries[i]) # ""

\* the sources are Swift files and the resources asset catalogs
Typical ==
    /\ \A i \in DOMAIN SOURCE_FILES : endswith(SOURCE_FILES[i], ".swift")
    /\ \A i \in DOMAIN RESOURCE_FILES : endswith(RESOURCE_FILES[i], ".xcassets")

\* every identifier assigned by the loaded module
Assigned ==
    Range(uuid) \cup {file_refs[i].val : i \in DOMAIN file_refs}
    \cup {build_files[i].val : i \in DOMAIN build_files}

DistinctIds == Cardinality(Assigned) = NStruct + Len(file_refs) + Len(build_files)

-----------------------------------------------------------------------------
(* Claims *)

\* C1 (as claimed): in every text pbxproj() returns, every identifier in a
\* referencing position is defined by exactly one object of the text, and no
\* object identifier is defined twice.  Stated here for well-formed manifests
\* and pairwise distinct identifiers only; it fails all the same, on an entry
\* of unrecognised type, whose file reference is never emitted.
C1_ReferentialClosure ==
    (WellFormed /\ DistinctIds) =>
        \A n \in DOMAIN renders :
            /\ \A r \in Referenced(renders[n]) :
                   Cardinality(Defining(renders[n], r)) = 1
            /\ \A i \in DOMAIN renders[n] :
                   renders[n][i].kind = "object" =>
                       Cardinality(Defining(renders[n], renders[n][i].id)) = 1

\* C2 (as claimed): the files of the sources phase are the source entries in
\* manifest order and the files of the resources phase are exactly the
\* resource entries.  Stated for well-formed manifests of Swift sources and
\* catalog resources and for distinct identifiers; it fails on a resource
\* other than ASSETS_XCASSETS.
C2_PhaseMembership ==
    (WellFormed /\ Typical /\ DistinctIds) =>
        \A n \in DOMAIN renders :
            /\ Listed(renders[n], "PBXSourcesBuildPhase", "files")
                 = [i \in DOMAIN SOURCE_FILES |-> DictGet(build_files, SOURCE_FILES[i])]
            /\ Range(Listed(renders[n], "PBXResourcesBuildPhase", "files"))
                 = {DictGet(build_files, RESOURCE_FILES[i]) : i \in DOMAIN RESOURCE_FILES}

\* C3 (as claimed): once the identifiers are assigned, file_refs and
\* build_files each hold one identifier per list entry of the manifest, N + M,
\* beside the 16 structural ones.  Stated for paths of recognised types and
\* distinct identifiers; it fails when a path is listed twice.
C3_IdentifierCount ==
    (pc # "load" /\ Recognised /\ DistinctIds) =>
        /\ Len(file_refs) = Len(SOURCE_FILES) + Len(RESOURCE_FILES)
        /\ Len(build_files) = Len(SOURCE_FILES) + Len(RESOURCE_FILES)
        /\ Len(uuid) = 16

\* C4 (as claimed): the identifiers assigned are pairwise distinct, whatever
\* make_uuid() returns.
C4_IdentifiersDistinct == pc # "load" => DistinctIds

C9_UnknownTypeHasReference ==
    \A n \in DOMAIN renders : \A e \in Range(file_refs) :
        (WellFormed /\ DistinctIds /\ lastKnownFileType(e.key) = "") =>
            \E i \in Defining(renders[n], e.val) :
                /\ renders[n][i].isa = "PBXFileReference"
                /\ renders[n][i].path = <<e.key>>

\* the status lines of the verification printed so far, in order
Checks == SelectSeq(stdout, LAMBDA o : o.tag \in {"ok", "MISSING"})

\* a text with every identifier blanked
Blank(t) ==
    [i \in DOMAIN t |->
        [t[i] EXCEPT !.id = 0,
                     !.refs = [j \in DOMAIN t[i].refs |-> Ref(t[i].refs[j].key, 0)]]]

\* a filesystem with the identifiers in its files blanked
Masked(f) == [n \in DOMAIN f |-> [kind |-> f[n].kind, data |-> Blank(f[n].data)]]

\* C6: whatever outputs were there before, no run ends on an error, and every
\* later run leaves the directories and files the first one left, with the
\* same contents up to the identifiers.
C6_RunIdempotent ==
    /\ error = ""
    /\ \A i \in DOMAIN fsAfter : Masked(fsAfter[i]) = Masked(fsAfter[1])

\* C6's case: a second run has finished, over the outputs of the first, and
\* has written a descriptor with other identifiers
C6_Witness ==
    /\ Len(fsAfter) >= 2
    /\ fsAfter[2] # fsAfter[1]
    /\ Len(SOURCE_FILES) >= 1

ListsEveryEntry(t) ==
    \A i \in DOMAIN Entries :
        /\ \E l \in Range(t) :
              /\ l.kind = "object" /\ l.isa = "PBXBuildFile"
              /\ l.id = DictGet(build_files, Entries[i])
              /\ l.refs = <<Ref("fileRef", DictGet(file_refs, Entries[i]))>>
        /\ \E l \in Range(t) :
              /\ l.kind = "object" /\ l.isa = "PBXGroup"
              /\ Ref("children", DictGet(file_refs, Entries[i])) \in Range(l.refs)

C10_RejectedBeforeAssignment ==
    ~WellFormed => (pc = "load" \/ error = "ManifestError")

-----------------------------------------------------------------------------
(* C11 *)

SectionOrder ==
    <<"PBXBuildFile", "PBXFileReference", "PBXFrameworksBuildPhase", "PBXGroup",
      "PBXNativeTarget", "PBXProject", "PBXResourcesBuildPhase",
      "PBXSourcesBuildPhase", "XCBuildConfiguration", "XCConfigurationList">>

\* the section markers of t, in the order of the text
Markers(t) == SelectSeq(t, LAMBDA l : l.kind \in {"begin", "end"})

\* each section opened once and closed before the next one is opened
MarkersInOrder ==
    [i \in 1..(2 * Len(SectionOrder)) |->
        IF i % 2 = 1 THEN Begin(SectionOrder[(i + 1) \div 2])
        ELSE End(SectionOrder[i \div 2])]

\* t read from its first line with section `open` open ("" for none): every
\* object stands in the open section and that section is of its type
RECURSIVE Enclosed(_, _)
Enclosed(t, open) ==
    IF t = <<>> THEN open = ""
    ELSE LET l == Head(t)
         IN  CASE l.kind = "begin"  -> open = "" /\ Enclosed(Tail(t), l.isa)
               [] l.kind = "end"    -> open = l.isa /\ Enclosed(Tail(t), "")
               [] l.kind = "object" -> open = l.isa /\ Enclosed(Tail(t), open)
               [] OTHER             -> Enclosed(Tail(t), open)

ObjectsOf(t, isa) == SelectSeq(t, LAMBDA l : l.kind = "object" /\ l.isa = isa)

\* the four configurations in the order project Debug, project Release,
\* target Debug, target Release; the project's list, the one PBXProject
\* names, holds the first two and the target's list, the one PBXNativeTarget
\* names, the last two
ConfigurationsPaired(t) ==
    LET c == ObjectsOf(t, "XCBuildConfiguration")
        l == ObjectsOf(t, "XCConfigurationList")
    IN  /\ Len(c) = 4
        /\ [i \in DOMAIN c |-> c[i].name] = <<"Debug", "Release", "Debug", "Release">>
        /\ c[3].attrs = TargetSettings /\ c[4].attrs = TargetSettings
        /\ c[1].attrs # TargetSettings /\ c[2].attrs # TargetSettings
        /\ Len(l) = 2
        /\ Listed(t, "PBXProject", "buildConfigurationList") = <<l[1].id>>
        /\ Listed(t, "PBXNativeTarget", "buildConfigurationList") = <<l[2].id>>
        /\ [i \in DOMAIN l[1].refs |-> l[1].refs[i]] =
              <<Ref("buildConfigurations", c[1].id),
                Ref("buildConfigurations", c[2].id)>>
        /\ [i \in DOMAIN l[2].refs |-> l[2].refs[i]] =
              <<Ref("buildConfigurations", c[3].id),
                Ref("buildConfigurations", c[4].id)>>

\* C11: for every manifest, every text pbxproj() returns holds the ten
\* sections once each and in the order PBXBuildFile, PBXFileReference,
\* PBXFrameworksBuildPhase, PBXGroup, PBXNativeTarget, PBXProject,
\* PBXResourcesBuildPhase, PBXSourcesBuildPhase, XCBuildConfiguration,
\* XCConfigurationList; every object stands inside the section of its own
\* type; the configuration section holds project Debug, project Release,
\* target Debug, target Release and each of the two lists names its own
\* Debug and Release configuration.
C11_SectionOrder ==
    \A n \in DOMAIN renders :
        /\ Markers(renders[n]) = MarkersInOrder
        /\ Enclosed(renders[n], "")
        /\ ConfigurationsPaired(renders[n])

\* a text rendered for a manifest with a source and a resource, both of a
\* recognised type, so that every section but the fixed ones has entries of
\* the manifest in it
C11_Witness ==
    /\ renders # <<>>
    /\ \E i \in DOMAIN SOURCE_FILES : SOURCE_FILES[i] = SwiftApp
    /\ RESOURCE_FILES = <<ASSETS_XCASSETS>>
    /\ Len(ObjectsOf(renders[1], "PBXBuildFile")) = 3
    /\ Len(ObjectsOf(renders[1], "PBXFileReference")) = 4

-----------------------------------------------------------------------------
(* C12 *)

\* the node the filesystem call at the current position is made on, with the
\* directories above it; nothing where the step makes no such call
Touched ==
    LET at == IF pc = "main" THEN {proj_dir}
              ELSE IF pc = "write" THEN {proj_path}
              ELSE IF pc = "catalog"
              THEN {IF idx <= 3 THEN OutputDirs[idx + 1] ELSE OutputFiles[idx - 2]}
              ELSE {}
    IN  at \cup UNION {Ancestors(n) : n \in at}

\* what main() has reported as done, checked or summed up
Reports(out) == SelectSeq(out, LAMBDA o : o.tag # "Generating")

\* the outputs in the order the claim gives them, and how many of them a
\* process at the given position has behind it
OutputsInOrder == <<proj_dir, proj_path>> \o Tail(OutputDirs) \o Tail(OutputFiles)

Behind(at, i) ==
    IF at \in {"load", "main"} THEN 0
    ELSE IF at \in {"render", "write"} THEN 1
    ELSE IF at = "catalog" THEN i + 1
    ELSE Len(OutputsInOrder)

\* a step that raises nothing does the next thing of the order and only that
NextInOrder ==
    /\ pc = "main" =>
         pc' = "render" /\ fs'[proj_dir] = Dir
    /\ pc = "write" =>
         pc' = "catalog" /\ idx' = 1 /\ fs'[proj_path] = File(content)
    /\ pc = "catalog" =>
         /\ fs'[OutputsInOrder[idx + 2]] =
               IF idx <= 3 THEN Dir ELSE File(CatalogJson[idx - 3])
         /\ IF idx < 6 THEN pc' = "catalog" /\ idx' = idx + 1
            ELSE pc' = "verify"
    /\ pc = "verify" =>
         /\ fs' = fs
         /\ \/ pc' = "verify" /\ Len(Reports(stdout')) = Len(Reports(stdout)) + 1
                              /\ stdout'[Len(stdout')].tag \in {"ok", "MISSING"}
            \/ pc' = "done" /\ Len(Reports(stdout')) = Len(Reports(stdout)) + 1
                            /\ stdout'[Len(stdout')].tag \in {"warning", "All present"}
    \* no check and no summary before the last output is written
    /\ pc # "verify" =>
         \A i \in DOMAIN stdout' :
            stdout'[i].tag \notin {"ok", "MISSING", "warning", "All present"}
    \* the outputs behind the process are there
    /\ \A i \in 1..Behind(pc', idx') : fs'[OutputsInOrder[i]].kind # "absent"

\* a step that raises ends the process at once: nothing is reported, no
\* check is made
Aborts ==
    /\ pc \in {"main", "write", "catalog"}
    /\ pc' = "crashed"
    /\ Reports(stdout') = Reports(stdout)
    /\ missing' = missing
    /\ \A i \in 1..Behind(pc, idx) : fs'[OutputsInOrder[i]] = fs[OutputsInOrder[i]]

\* C12: main() makes the project directory, writes the descriptor, makes the
\* three catalog directories, writes the three catalog files, checks the
\* paths and prints the summary, in this order; when a directory creation or
\* a file write raises, no later step is taken (no file written, no check
\* made, no summary printed) and what the steps before it did stays as it is.
C12_ErrorsAbort ==
    [][ /\ error # "" => UNCHANGED <<fs, stdout, missing, pc, idx>>
        /\ \A n \in Nodes : fs'[n] # fs[n] => n \in Touched
        /\ (error = "" /\ error' # "") => Aborts
        /\ (error' = "" /\ pc # "load") => NextInOrder
      ]_vars

\* the process ended by a failed write of the second catalog file, cut short,
\* with the descriptor and the first catalog file written and reported and
\* the third catalog file not made
C12_Witness ==
    /\ pc = "crashed"
    /\ error = "OSError"
    /\ idx = 5
    /\ fs[proj_path] = File(content)
    /\ fs[OutputFiles[2]] = File(CatalogJson[1])
    /\ fs[OutputFiles[3]] = File(SubSeq(CatalogJson[2], 1, 1))
    /\ fs[OutputFiles[4]] = Absent
    /\ Reports(stdout) = <<Out("Created", proj_path)>>
    /\ SOURCE_FILES # <<>>

====
